---- MODULE Spec2Model ----
(***************************************************************************)
(* Model of the fs-gate agricultural gateway (server.ts): the two tool     *)
(* handlers (cropPriceHandler, searchHandler), the tool registry and the   *)
(* two front-ends over it, REST (POST /tools/{name}) and JSON-RPC          *)
(* (POST /mcp).                                                            *)
(*                                                                         *)
(* JavaScript values are tagged records, so that absent (undefined), null, *)
(* empty strings and zero stay distinct and the language's own tests       *)
(* (truthiness, ??, destructuring defaults, String(), JSON.stringify) are  *)
(* computed as the runtime computes them.                                  *)
(*                                                                         *)
(* Five specifications share the definitions of the code:                  *)
(*   SpecHandlers  a handler called directly, over wide argument and       *)
(*                 upstream-response domains;                              *)
(*   Spec          the HTTP listener serving requests on one connection;   *)
(*   SpecPair      one logical call sent over REST and over RPC on two     *)
(*                 connections served concurrently;                        *)
(*   SpecConcurrent  the listener serving two connections at once, their   *)
(*                 requests drawn independently;                           *)
(*   SpecLive      the same under a fair event loop.                       *)
(***************************************************************************)
EXTENDS Integers, Sequences, FiniteSets, TLC

VARIABLES
    env,    \* process.env: the configuration the handlers read on every call
    call,   \* the handler invocation in progress (one async function activation)
    conns   \* the HTTP exchanges, by connection: request, body read so far,
            \* the handler activation serving it, response

vars == <<env, call, conns>>

-----------------------------------------------------------------------------
(* JavaScript values *)

Undef == [t |-> "undef"]
Null == [t |-> "null"]
Bool(b) == [t |-> "bool", v |-> b]
Num(n) == [t |-> "num", v |-> n]
\* a string whose characters never matter, held whole
Str(s) == [t |-> "str", v |-> s]
\* a string held as its sequence of characters (length and substring matter)
Text(cs) == [t |-> "text", v |-> cs]
Arr(s) == [t |-> "arr", v |-> s]
\* an object: a record of its own properties; a property holding Undef
\* reads, destructures and serialises exactly like a property that is absent
Obj(r) == [t |-> "obj", v |-> r]
\* an instance of a template literal: head is the template itself, status and
\* tail the values substituted into it (status 0: the template has none)
Msg(head, status, tail) == [t |-> "msg", head |-> head, status |-> status, tail |-> tail]

Nullish(v) == v.t \in {"undef", "null"}

\* ToBoolean: what `if (v)`, `!v` and `a || b` test
Truthy(v) ==
    CASE v.t \in {"undef", "null"} -> FALSE
      [] v.t = "bool" -> v.v
      [] v.t = "num" -> v.v # 0
      [] v.t = "str" -> v.v # ""
      [] v.t = "text" -> v.v # <<>>
      [] v.t = "msg" -> v.head # ""
      [] v.t = "json" -> v.fmt # "empty"
      [] OTHER -> TRUE

\* v.k and the k of `const {k} = v`, for a v that is neither null nor undefined
\* (reading a property of null or undefined throws a TypeError instead)
Get(v, k) == IF v.t = "obj" /\ k \in DOMAIN v.v THEN v.v[k] ELSE Undef

RECURSIVE JSString(_)
RECURSIVE JoinFrom(_, _)
\* Array.prototype.join(","), from element i on
JoinFrom(s, i) ==
    IF i > Len(s) THEN ""
    ELSE (IF Nullish(s[i]) THEN "" ELSE JSString(s[i]))
         \o (IF i < Len(s) THEN "," ELSE "") \o JoinFrom(s, i + 1)
\* String(v), which URLSearchParams also applies to the values it is given
JSString(v) ==
    CASE v.t = "undef" -> "undefined"
      [] v.t = "null" -> "null"
      [] v.t = "bool" -> IF v.v THEN "true" ELSE "false"
      [] v.t = "num" -> ToString(v.v)
      [] v.t = "str" -> v.v
      [] v.t = "arr" -> JoinFrom(v.v, 1)
      [] OTHER -> "[object Object]"

\* v.length
JSLength(v) ==
    CASE v.t = "arr" -> Num(Len(v.v))
      [] v.t = "text" -> Num(Len(v.v))
      [] OTHER -> Undef

-----------------------------------------------------------------------------
(* JSON texts: strings held as the value they denote plus their layout; a  *)
(* text that is no JSON at all denotes nothing.                           *)

EmptyText == [t |-> "json", fmt |-> "empty", v |-> Undef]
Garbage(label) == [t |-> "json", fmt |-> "garbage", v |-> Str(label)]

RECURSIVE Clean(_)
\* what JSON.stringify keeps of a value: properties holding undefined are
\* dropped, undefined array elements become null
Clean(v) ==
    CASE v.t = "obj" ->
            Obj([k \in {x \in DOMAIN v.v : v.v[x] # Undef} |-> Clean(v.v[k])])
      [] v.t = "arr" ->
            Arr([i \in 1..Len(v.v) |->
                    IF v.v[i] = Undef THEN Null ELSE Clean(v.v[i])])
      [] OTHER -> v

\* JSON.stringify(v)
Stringify(v) == [t |-> "json", fmt |-> "compact", v |-> Clean(v)]
\* JSON.stringify(v, null, 2)
StringifyPretty(v) == [t |-> "json", fmt |-> "pretty", v |-> Clean(v)]

\* JSON.parse(text) throws a SyntaxError exactly when Parseable is false
Parseable(text) == text.fmt \in {"compact", "pretty"}
Parse(text) == text.v

\* body || '{}'
OrEmptyObject(text) == IF Truthy(text) THEN text ELSE Stringify(Obj(<<>>))

-----------------------------------------------------------------------------
(* Program constants *)

DefaultLimit == 50
DefaultOffset == 0
DefaultNumResults == 5
TruncLen == 500
DefaultResourceId == "35985678-0d79-46b4-9ed6-6f13308a1d24"
Marker == <<".", ".", ".">>
UndefinedChars == <<"u", "n", "d", "e", "f", "i", "n", "e", "d">>

-----------------------------------------------------------------------------
(* Tool Results, as the handlers build them *)

\* a failure that also carries the fields of a success
Failure_WithSuccessFields(message) ==
    Obj([error |-> message, success |-> Bool(FALSE), data |-> Null])

Failure(message) == Obj([error |-> message])
Success(data) == Obj([success |-> Bool(TRUE), data |-> data])

\* what an async handler has done when it first gives up control: it has
\* returned a result, or it is suspended on the fetch it has just issued
Returned(result) == [pc |-> "returned", result |-> result, fetch |-> Undef]
Awaiting(request) == [pc |-> "awaiting", result |-> Undef, fetch |-> request]

\* what the awaited fetch(...) / res.text() pair settles to
Rejected == [rejected |-> TRUE, status |-> 0, text |-> EmptyText]
Response(status, text) == [rejected |-> FALSE, status |-> status, text |-> text]
\* res.ok
Ok(up) == up.status >= 200 /\ up.status < 300

\* the catch clause closing each handler
ServerError(err) == Failure(Msg("Server error: ${String(err)}", 0, Str(err)))

-----------------------------------------------------------------------------
(* cropPriceHandler *)

\* the default taken with || instead of ??
Coalesce_Or(a, b) == IF Truthy(a) THEN a ELSE b

\* a ?? b
Coalesce(a, b) == IF Nullish(a) THEN b ELSE a

\* if (v) urlParams.append(key, v)
FilterEntry(key, v) == IF Truthy(v) THEN <<[k |-> key, v |-> JSString(v)]>> ELSE <<>>

\* the GET request the price handler builds: resource and ordered query entries
cropPriceUrl(e, params) ==
    LET state == Get(params, "state")
        district == Get(params, "district")
        commodity == Get(params, "commodity")
        limit == Coalesce(Get(params, "limit"), Num(DefaultLimit))
        offset == Coalesce(Get(params, "offset"), Num(DefaultOffset))
        RESOURCE_ID == Coalesce(e.DATAGOVIN_RESOURCE_ID, Str(DefaultResourceId))
    IN  [method |-> "GET",
         host |-> "api.data.gov.in",
         resource |-> RESOURCE_ID.v,
         query |-> << [k |-> "api-key", v |-> JSString(e.DATAGOVIN_API_KEY)],
                      [k |-> "format", v |-> "json"],
                      [k |-> "limit", v |-> JSString(limit)],
                      [k |-> "offset", v |-> JSString(offset)] >>
                   \o FilterEntry("filters[State]", state)
                   \o FilterEntry("filters[District]", district)
                   \o FilterEntry("filters[Commodity]", commodity),
         body |-> EmptyText]

\* cropPriceHandler up to its first await
cropPriceHandlerBegin(e, params) ==
    IF ~Truthy(e.DATAGOVIN_API_KEY)
    THEN Returned(Failure(Msg("Configuration error: DATAGOVIN_API_KEY not set in environment.", 0, Str(""))))
    ELSE IF Nullish(params)
    THEN Returned(ServerError("TypeError"))
    ELSE Awaiting(cropPriceUrl(e, params))

\* the body parsed before the status is looked at
cropPriceHandlerResume_ParseFirst(params, up) ==
    IF up.rejected THEN ServerError("FetchError")
    ELSE IF ~Parseable(up.text)
    THEN Failure(Msg("Invalid JSON response: ${text}", 0, up.text))
    ELSE IF ~Ok(up)
    THEN Failure(Msg("HTTP ${res.status} fetching data.gov.in: ${text}", up.status, up.text))
    ELSE LET json == Parse(up.text) IN
         IF Nullish(json) THEN ServerError("TypeError")
         ELSE LET records == IF Truthy(Get(json, "records"))
                             THEN Get(json, "records") ELSE Arr(<<>>)
                  total == IF Truthy(Get(json, "total"))
                           THEN Get(json, "total") ELSE JSLength(records)
              IN  Success(Obj([records |-> records,
                               total |-> total,
                               limit |-> Coalesce(Get(params, "limit"), Num(DefaultLimit)),
                               offset |-> Coalesce(Get(params, "offset"), Num(DefaultOffset)),
                               query |-> Obj([state |-> Get(params, "state"),
                                              district |-> Get(params, "district"),
                                              commodity |-> Get(params, "commodity")])]))

\* cropPriceHandler from the settling of its fetch to its return
cropPriceHandlerResume(params, up) ==
    IF up.rejected THEN ServerError("FetchError")
    ELSE IF ~Ok(up)
    THEN Failure(Msg("HTTP ${res.status} fetching data.gov.in: ${text}", up.status, up.text))
    ELSE IF ~Parseable(up.text)
    THEN Failure(Msg("Invalid JSON response: ${text}", 0, up.text))
    ELSE LET json == Parse(up.text) IN
         IF Nullish(json) THEN ServerError("TypeError")
         ELSE LET records == IF Truthy(Get(json, "records"))
                             THEN Get(json, "records") ELSE Arr(<<>>)
                  total == IF Truthy(Get(json, "total"))
                           THEN Get(json, "total") ELSE JSLength(records)
              IN  Success(Obj([records |-> records,
                               total |-> total,
                               limit |-> Coalesce(Get(params, "limit"), Num(DefaultLimit)),
                               offset |-> Coalesce(Get(params, "offset"), Num(DefaultOffset)),
                               query |-> Obj([state |-> Get(params, "state"),
                                              district |-> Get(params, "district"),
                                              commodity |-> Get(params, "commodity")])]))

-----------------------------------------------------------------------------
(* searchHandler *)

\* const {k = d} = params : the default applies to undefined only
Default(a, d) == IF a = Undef THEN d ELSE a

\* if (v) requestBody[key] = v
OptionalField(v) == IF Truthy(v) THEN v ELSE Undef

\* the POST request the search handler builds
searchRequest(e, params) ==
    LET requestBody ==
            Obj([query |-> Get(params, "query"),
                 num_results |-> Default(Get(params, "num_results"), Num(DefaultNumResults)),
                 use_autoprompt |-> Bool(TRUE),
                 contents |-> Obj([text |-> Bool(TRUE)]),
                 include_domains |-> OptionalField(Get(params, "include_domains")),
                 exclude_domains |-> OptionalField(Get(params, "exclude_domains")),
                 start_crawl_date |-> OptionalField(Get(params, "start_crawl_date")),
                 end_crawl_date |-> OptionalField(Get(params, "end_crawl_date"))])
    IN  [method |-> "POST",
         host |-> "api.exa.ai",
         resource |-> "search",
         query |-> << [k |-> "x-api-key", v |-> JSString(e.EXA_API_KEY)] >>,
         body |-> Stringify(requestBody)]

\* the key tested against undefined only
searchHandlerBegin_KeyUndefinedOnly(e, params) ==
    IF e.EXA_API_KEY = Undef
    THEN Returned(Failure(Msg("Configuration error: EXA_API_KEY not set in environment.", 0, Str(""))))
    ELSE IF Nullish(params)
    THEN Returned(ServerError("TypeError"))
    ELSE Awaiting(searchRequest(e, params))

\* searchHandler up to its first await
searchHandlerBegin(e, params) ==
    IF ~Truthy(e.EXA_API_KEY)
    THEN Returned(Failure(Msg("Configuration error: EXA_API_KEY not set in environment.", 0, Str(""))))
    ELSE IF Nullish(params)
    THEN Returned(ServerError("TypeError"))
    ELSE Awaiting(searchRequest(e, params))

\* s.substring(0, n)
Substring(cs, n) == SubSeq(cs, 1, IF Len(cs) < n THEN Len(cs) ELSE n)

\* the marker appended from 500 characters on
TruncatedText_AtLeast(text) ==
    IF Nullish(text) THEN Text(UndefinedChars)
    ELSE Text(Substring(text.v, TruncLen)
              \o (IF Len(text.v) >= TruncLen THEN Marker ELSE <<>>))

\* an absent text mapped to the empty string
TruncatedText_AbsentAsEmpty(text) ==
    IF Nullish(text) THEN Text(<<>>)
    ELSE Text(Substring(text.v, TruncLen)
              \o (IF Len(text.v) > TruncLen THEN Marker ELSE <<>>))

\* result.text?.substring(0, 500) + (result.text?.length > 500 ? '...' : '')
\* for a text that is absent, null or a string
TruncatedText(text) ==
    IF Nullish(text) THEN Text(UndefinedChars)
    ELSE Text(Substring(text.v, TruncLen)
              \o (IF Len(text.v) > TruncLen THEN Marker ELSE <<>>))

\* the callback of results.map throws a TypeError on an entry that is null or
\* undefined, and on a text that is neither nullish nor a string
MapThrows(result) ==
    \/ Nullish(result)
    \/ Get(result, "text").t \notin {"undef", "null", "text"}

MapResult(result) ==
    Obj([title |-> Get(result, "title"),
         url |-> Get(result, "url"),
         text |-> TruncatedText(Get(result, "text")),
         score |-> Get(result, "score"),
         published_date |-> Get(result, "published_date")])

\* searchHandler from the settling of its fetch to its return
searchHandlerResume(params, up) ==
    IF up.rejected THEN ServerError("FetchError")
    ELSE IF ~Ok(up)
    THEN Failure(Msg("HTTP ${res.status} fetching EXA API: ${text}", up.status, up.text))
    ELSE IF ~Parseable(up.text)
    THEN Failure(Msg("Invalid JSON response from EXA: ${text}", 0, up.text))
    ELSE LET json == Parse(up.text) IN
         IF Nullish(json) THEN ServerError("TypeError")
         ELSE LET results == IF Truthy(Get(json, "results"))
                             THEN Get(json, "results") ELSE Arr(<<>>)
              IN  IF results.t # "arr" THEN ServerError("TypeError")
                  ELSE IF \E i \in 1..Len(results.v) : MapThrows(results.v[i])
                  THEN ServerError("TypeError")
                  ELSE Success(Obj([results |-> Arr([i \in 1..Len(results.v) |->
                                                        MapResult(results.v[i])]),
                                    total_results |-> JSLength(results),
                                    query |-> Get(params, "query")]))

-----------------------------------------------------------------------------
(* Tool registry *)

toolHandlers == [n \in {"crop-price", "search"} |->
                    IF n = "crop-price" THEN "cropPriceHandler" ELSE "searchHandler"]

\* Array.from(toolHandlers.keys()) : insertion order
toolNames == <<"crop-price", "search">>

\* toolHandlers.get(name) is defined
Registered(name) == name.t = "str" /\ name.v \in DOMAIN toolHandlers

HandlerBegin(name, e, params) ==
    IF toolHandlers[name] = "cropPriceHandler"
    THEN cropPriceHandlerBegin(e, params)
    ELSE searchHandlerBegin(e, params)

HandlerResume(name, params, up) ==
    IF toolHandlers[name] = "cropPriceHandler"
    THEN cropPriceHandlerResume(params, up)
    ELSE searchHandlerResume(params, up)

-----------------------------------------------------------------------------
(* Bounds and input domains *)

\* longest list of entries an upstream search response carries
MaxResults == 2
\* most pieces a request body arrives in
MaxChunks == 2

KeyValues == {Undef, Str(""), Str("key-1")}

\* the fully configured environment and the ones that differ from it in the keys
Envs ==
    { [DATAGOVIN_API_KEY |-> Str("key-1"), DATAGOVIN_RESOURCE_ID |-> r, EXA_API_KEY |-> Str("key-2")]
        : r \in {Undef, Str("res-1")} }
    \cup { [DATAGOVIN_API_KEY |-> a, DATAGOVIN_RESOURCE_ID |-> Undef, EXA_API_KEY |-> Str("key-2")]
        : a \in KeyValues }
    \cup { [DATAGOVIN_API_KEY |-> Str("key-1"), DATAGOVIN_RESOURCE_ID |-> Undef, EXA_API_KEY |-> b]
        : b \in KeyValues }
    \cup { [DATAGOVIN_API_KEY |-> Undef, DATAGOVIN_RESOURCE_ID |-> Undef, EXA_API_KEY |-> Undef] }

\* arguments that are no mapping at all
NonObjects == {Undef, Null, Num(7)}

PriceObjects ==
    { Obj([state |-> s, district |-> d, commodity |-> c, limit |-> l, offset |-> o])
        : s \in {Undef, Str(""), Str("Punjab")},
          d \in {Undef, Str(""), Str("Ludhiana")},
          c \in {Undef, Str(""), Str("Wheat")},
          l \in {Undef, Null, Num(0), Num(5)},
          o \in {Undef, Num(0), Num(10)} }

SearchObjects ==
    { Obj([query |-> q, num_results |-> n, include_domains |-> i])
        : q \in {Undef, Str("wheat prices")},
          n \in {Undef, Num(3)},
          i \in {Undef, Arr(<<Str("agri.example")>>)} }
    \cup { Obj([query |-> Str("wheat prices"), num_results |-> Null,
                include_domains |-> Arr(<<>>), exclude_domains |-> Arr(<<Str("spam.example")>>),
                start_crawl_date |-> d, end_crawl_date |-> Str("2024-12-31")])
            : d \in {Str(""), Str("2024-01-01")} }

ParamsFor(name) ==
    NonObjects \cup (IF name = "crop-price" THEN PriceObjects ELSE SearchObjects)

Chars == <<"a", "b", "c">>
\* a text of n characters, no two neighbours alike
TextOfLen(n) == Text([i \in 1..n |-> Chars[(i % 3) + 1]])

\* seqs of length at most n over S
SeqsUpTo(S, n) == UNION {[1..k -> S] : k \in 0..n}

PriceRecord(c, p) == Obj([Commodity |-> Str(c), Modal_Price |-> Str(p)])

PriceBodies ==
    { Garbage("<html>502</html>"), Stringify(Null), Stringify(Num(3)) }
    \cup { Stringify(Obj([records |-> r, total |-> t]))
            : r \in {Undef, Arr(<<>>), Arr(<<PriceRecord("Wheat", "2100")>>),
                     Arr(<<PriceRecord("Wheat", "2100"), PriceRecord("Rice", "3000")>>)},
              t \in {Undef, Num(0), Num(7)} }

SearchEntries ==
    { Obj([title |-> Str("T" \o ToString(n)), url |-> Str("https://x.example"), text |-> TextOfLen(n)])
        : n \in {0, TruncLen - 1, TruncLen, TruncLen + 1} }
    \cup { Obj([title |-> Str("no text"), url |-> Str("https://y.example"), text |-> Undef]),
           Obj([title |-> Str("numeric text"), url |-> Str("https://z.example"), text |-> Num(1)]) }

SearchBodies ==
    { Garbage("<html>502</html>"), Stringify(Null), Stringify(Obj([results |-> Undef])),
      Stringify(Obj([results |-> Num(1)])), Stringify(Obj([results |-> Arr(<<Null>>)])) }
    \cup { Stringify(Obj([results |-> Arr(r)])) : r \in SeqsUpTo(SearchEntries, MaxResults) }

BodiesFor(name) == IF name = "crop-price" THEN PriceBodies ELSE SearchBodies

\* what the upstream can answer a request of the named tool with
OutcomesFor(name) ==
    { Rejected }
    \cup { Response(st, b) : st \in {500}, b \in {Garbage("<html>502</html>"), Stringify(Obj([error |-> Str("denied")]))} }
    \cup { Response(200, b) : b \in BodiesFor(name) }

-----------------------------------------------------------------------------
(* One handler invocation *)

Idle == [pc |-> "idle", name |-> "", params |-> Undef, fetches |-> <<>>,
         upstream |-> Undef, result |-> Undef]

\* handler(params): the activation runs to its first await or to its return
Start(name, e, params) ==
    LET b == HandlerBegin(name, e, params)
    IN  [pc |-> b.pc, name |-> name, params |-> params,
         fetches |-> IF b.pc = "awaiting" THEN <<b.fetch>> ELSE <<>>,
         upstream |-> Undef, result |-> b.result]

\* the awaited fetch settles and the activation runs to its return
Settle(c, up) ==
    [c EXCEPT !.pc = "returned", !.upstream = up,
              !.result = HandlerResume(c.name, c.params, up)]


-----------------------------------------------------------------------------
(* JSON-RPC front-end: handleMCPRequest *)

Property(type) == Obj([type |-> Str(type)])

mcpTools ==
    Arr(<< Obj([name |-> Str("crop-price"),
                description |-> Str("Fetch crop price data from data.gov.in with state/district/commodity filters"),
                inputSchema |->
                    Obj([type |-> Str("object"),
                         properties |-> Obj([state |-> Property("string"),
                                             district |-> Property("string"),
                                             commodity |-> Property("string"),
                                             limit |-> Property("number"),
                                             offset |-> Property("number")])])]),
           Obj([name |-> Str("search"),
                description |-> Str("Search the web for agricultural information using EXA API"),
                inputSchema |->
                    Obj([type |-> Str("object"),
                         properties |-> Obj([query |-> Property("string"),
                                             num_results |-> Property("number"),
                                             include_domains |-> Property("array"),
                                             exclude_domains |-> Property("array")]),
                         required |-> Arr(<<Str("query")>>)])]) >>)

RpcResult(id, result) == Obj([jsonrpc |-> Str("2.0"), id |-> id, result |-> result])
RpcError(id, error) == Obj([jsonrpc |-> Str("2.0"), id |-> id, error |-> error])

Reply(response) == [kind |-> "reply", response |-> response]

\* handleMCPRequest up to its await of the tool handler: it replies, or it
\* invokes a handler, or (a request that is null: reading request.method
\* throws, and so does reading request.id in the catch clause) it throws
handleMCPRequestBegin(request) ==
    IF Nullish(request) THEN [kind |-> "throws"]
    ELSE
    LET id == Get(request, "id")
        method == Get(request, "method")
        params == Get(request, "params")
        name == Get(params, "name")
    IN  CASE method = Str("initialize") ->
                Reply(RpcResult(id, Obj([protocolVersion |-> Str("2024-11-05"),
                                         capabilities |-> Obj([tools |-> Obj(<<>>)]),
                                         serverInfo |-> Obj([name |-> Str("agricultural-ai-mcp"),
                                                             version |-> Str("1.0.0")])])))
          [] method = Str("tools/list") ->
                Reply(RpcResult(id, Obj([tools |-> mcpTools])))
          [] method = Str("tools/call") ->
                IF Nullish(params)
                THEN Reply(RpcError(id, Obj([code |-> Num(-32603),
                        message |-> Msg("Internal error: ${String(error)}", 0, Str("TypeError"))])))
                ELSE IF ~Registered(name)
                THEN Reply(RpcError(id, Obj([code |-> Num(-32601),
                        message |-> Msg("Tool '${name}' not found", 0, name),
                        data |-> Obj([availableTools |-> Arr([i \in 1..Len(toolNames) |-> Str(toolNames[i])])])])))
                ELSE [kind |-> "invoke", name |-> name.v, args |-> Get(params, "arguments")]
          [] OTHER ->
                Reply(RpcError(id, Obj([code |-> Num(-32601),
                        message |-> Msg("Method '${request.method}' not found", 0, method)])))

\* the whole Tool Result put in the text block
handleMCPRequestResume_WrapsResult(request, result) ==
    IF Truthy(Get(result, "error"))
    THEN RpcError(Get(request, "id"),
                  Obj([code |-> Num(-32603), message |-> Get(result, "error")]))
    ELSE RpcResult(Get(request, "id"),
                   Obj([content |-> Arr(<< Obj([type |-> Str("text"),
                                                text |-> StringifyPretty(result)]) >>)]))

\* a handler failure reported with the not-found code
handleMCPRequestResume_NotFoundCode(request, result) ==
    IF Truthy(Get(result, "error"))
    THEN RpcError(Get(request, "id"),
                  Obj([code |-> Num(-32601), message |-> Get(result, "error")]))
    ELSE RpcResult(Get(request, "id"),
                   Obj([content |-> Arr(<< Obj([type |-> Str("text"),
                                                text |-> StringifyPretty(Get(result, "data"))]) >>)]))

\* handleMCPRequest from the handler's return on
handleMCPRequestResume(request, result) ==
    IF Truthy(Get(result, "error"))
    THEN RpcError(Get(request, "id"),
                  Obj([code |-> Num(-32603), message |-> Get(result, "error")]))
    ELSE RpcResult(Get(request, "id"),
                   Obj([content |-> Arr(<< Obj([type |-> Str("text"),
                                                text |-> StringifyPretty(Get(result, "data"))]) >>)]))

-----------------------------------------------------------------------------
(* HTTP listener: httpServer *)

\* A URL is held as its sequence of pieces; "/tools/" occurs in a URL only
\* as a piece, so that startsWith and split see pieces.
RECURSIVE Concat(_)
Concat(pieces) == IF pieces = <<>> THEN "" ELSE Head(pieces) \o Concat(Tail(pieces))

RECURSIVE UpTo(_, _)
\* the pieces before the first occurrence of sep
UpTo(pieces, sep) ==
    IF pieces = <<>> \/ Head(pieces) = sep THEN <<>>
    ELSE <<Head(pieces)>> \o UpTo(Tail(pieces), sep)

\* url.startsWith('/tools/')
StartsWithTools(url) == url # <<>> /\ Head(url) = "/tools/"

\* url.split('/tools/')[1], for a url that starts with '/tools/'
toolName(url) == Str(Concat(UpTo(Tail(url), "/tools/")))

HttpResponse(status, value) == [status |-> status, body |-> Stringify(value)]
NoResponse == [status |-> 0, body |-> EmptyText]

Closed == [pc |-> "closed", method |-> "", url |-> <<>>, wire |-> EmptyText,
           nchunks |-> 0, received |-> 0, front |-> "none", request |-> Undef,
           h |-> Idle, response |-> NoResponse, writes |-> 0]

\* res.writeHead(...); res.end(...) : one more response written to the socket
Responded(x, response) ==
    [x EXCEPT !.pc = "responded", !.response = response, !.writes = @ + 1]

HealthBody(e) ==
    Obj([status |-> Str("healthy"),
         server |-> Str("agricultural-ai-mcp"),
         tools |-> Arr(<<Str("crop-price"), Str("search")>>),
         environment |-> Obj([datagovin_key_set |-> Bool(Truthy(e.DATAGOVIN_API_KEY)),
                              exa_key_set |-> Bool(Truthy(e.EXA_API_KEY))])])

InfoBody ==
    Obj([name |-> Str("Agricultural AI MCP Server"),
         version |-> Str("1.0.0"),
         tools |-> Arr(<<Obj([name |-> Str("crop-price"), endpoint |-> Str("/tools/crop-price")]),
                         Obj([name |-> Str("search"), endpoint |-> Str("/tools/search")])>>)])

\* the createServer callback: routes on method and url; the two POST routes
\* register their 'data' and 'end' listeners and return
httpServer(e, method, url, wire, nchunks) ==
    LET x == [Closed EXCEPT !.method = method, !.url = url, !.wire = wire,
                            !.nchunks = nchunks]
    IN  IF method = "OPTIONS" THEN Responded(x, [status |-> 200, body |-> EmptyText])
        ELSE IF url = <<"/mcp">> /\ method = "POST"
        THEN [x EXCEPT !.pc = "reading", !.front = "mcp"]
        ELSE IF url = <<"/health">> THEN Responded(x, HttpResponse(200, HealthBody(e)))
        ELSE IF url = <<"/">> THEN Responded(x, HttpResponse(200, InfoBody))
        ELSE IF StartsWithTools(url) /\ method = "POST"
        THEN [x EXCEPT !.pc = "reading", !.front = "rest"]
        ELSE Responded(x, HttpResponse(404, Obj([error |-> Str("Not found")])))

\* the body the 'data' listener has accumulated when 'end' fires
BodyOf(x) == IF x.nchunks = 0 THEN EmptyText ELSE x.wire

Handling(x, request, name, e, args) ==
    [x EXCEPT !.pc = "handling", !.request = request, !.h = Start(name, e, args)]

\* no test of the lookup: calling the undefined handler throws into the catch
toolsOnEnd_NoLookupTest(e, x) ==
    LET text == OrEmptyObject(BodyOf(x))
        name == toolName(x.url)
    IN  IF ~Parseable(text) \/ ~Registered(name)
        THEN Responded(x, HttpResponse(400,
                Obj([error |-> Msg("Invalid request: ${error}", 0, Str("Error"))])))
        ELSE Handling(x, Parse(text), name.v, e, Parse(text))

\* the lookup made before the body is parsed
toolsOnEnd_LookupFirst(e, x) ==
    LET text == OrEmptyObject(BodyOf(x))
        name == toolName(x.url)
    IN  IF ~Registered(name)
        THEN Responded(x, HttpResponse(404,
                Obj([error |-> Msg("Tool '${toolName}' not found", 0, name),
                     available_tools |-> Arr([i \in 1..Len(toolNames) |-> Str(toolNames[i])])])))
        ELSE IF ~Parseable(text)
        THEN Responded(x, HttpResponse(400,
                Obj([error |-> Msg("Invalid request: ${error}", 0, Str("SyntaxError"))])))
        ELSE Handling(x, Parse(text), name.v, e, Parse(text))

\* the 'end' listener of POST /tools/{name}, up to its await of the handler
toolsOnEnd(e, x) ==
    LET text == OrEmptyObject(BodyOf(x))
        name == toolName(x.url)
    IN  IF ~Parseable(text)
        THEN Responded(x, HttpResponse(400,
                Obj([error |-> Msg("Invalid request: ${error}", 0, Str("SyntaxError"))])))
        ELSE IF ~Registered(name)
        THEN Responded(x, HttpResponse(404,
                Obj([error |-> Msg("Tool '${toolName}' not found", 0, name),
                     available_tools |-> Arr([i \in 1..Len(toolNames) |-> Str(toolNames[i])])])))
        ELSE Handling(x, Parse(text), name.v, e, Parse(text))

\* the id of a parse error given as null
ParseErrorResponse_NullId ==
    HttpResponse(400, RpcError(Null,
        Obj([code |-> Num(-32700), message |-> Msg("Parse error: ${String(error)}", 0, Str("Error"))])))

ParseErrorResponse ==
    HttpResponse(400, RpcError(Num(0),
        Obj([code |-> Num(-32700), message |-> Msg("Parse error: ${String(error)}", 0, Str("Error"))])))

\* no catch around the listener's body: what handleMCPRequest throws escapes
\* as an unhandled rejection and the request is left without a response
mcpOnEnd_NoOuterCatch(e, x) ==
    IF ~Parseable(BodyOf(x)) THEN [x EXCEPT !.pc = "faulted"]
    ELSE LET mcpRequest == Parse(BodyOf(x))
             d == handleMCPRequestBegin(mcpRequest)
         IN  CASE d.kind = "throws" -> [x EXCEPT !.pc = "faulted"]
               [] d.kind = "reply" ->
                    Responded([x EXCEPT !.request = mcpRequest], HttpResponse(200, d.response))
               [] OTHER -> Handling(x, mcpRequest, d.name, e, d.args)

\* the 'end' listener of POST /mcp, up to handleMCPRequest's await of the handler
mcpOnEnd(e, x) ==
    IF ~Parseable(BodyOf(x)) THEN Responded(x, ParseErrorResponse)
    ELSE LET mcpRequest == Parse(BodyOf(x))
             d == handleMCPRequestBegin(mcpRequest)
         IN  CASE d.kind = "throws" -> Responded(x, ParseErrorResponse)
               [] d.kind = "reply" ->
                    Responded([x EXCEPT !.request = mcpRequest], HttpResponse(200, d.response))
               [] OTHER -> Handling(x, mcpRequest, d.name, e, d.args)

\* the status taken from the outcome
AfterHandler_StatusByOutcome(x) ==
    IF x.front = "rest"
    THEN Responded(x, HttpResponse(IF Truthy(Get(x.h.result, "error")) THEN 500 ELSE 200,
                                   x.h.result))
    ELSE Responded(x, HttpResponse(200, handleMCPRequestResume(x.request, x.h.result)))

\* the rest of the 'end' listener, once the handler has returned
AfterHandler(x) ==
    IF x.front = "rest"
    THEN Responded(x, HttpResponse(200, x.h.result))
    ELSE Responded(x, HttpResponse(200, handleMCPRequestResume(x.request, x.h.result)))

-----------------------------------------------------------------------------
(* Server actions, per connection *)

Slots == {1, 2}

RequestArrives(i, method, url, wire, nchunks) ==
    /\ conns[i].pc = "closed"
    /\ conns' = [conns EXCEPT ![i] = httpServer(env, method, url, wire, nchunks)]
    /\ UNCHANGED <<env, call>>

\* req.on('data'): one more piece of the body
OnData(i) ==
    /\ conns[i].pc = "reading"
    /\ conns[i].received < conns[i].nchunks
    /\ conns' = [conns EXCEPT ![i].received = @ + 1]
    /\ UNCHANGED <<env, call>>

\* the body kept in one variable of the module instead of one per request:
\* the listener parses what the other connection is in the middle of sending
OnEnd_SharedBody(i) ==
    /\ conns[i].pc = "reading"
    /\ conns[i].received = conns[i].nchunks
    /\ LET mine == conns[i]
           other == conns[3 - i]
           seen == IF other.pc = "reading" /\ other.received > 0
                   THEN [mine EXCEPT !.wire = other.wire, !.nchunks = other.nchunks]
                   ELSE mine
           ended == IF mine.front = "rest" THEN toolsOnEnd(env, seen)
                                           ELSE mcpOnEnd(env, seen)
       IN  conns' = [conns EXCEPT ![i] = [ended EXCEPT !.wire = mine.wire,
                                                       !.nchunks = mine.nchunks]]
    /\ UNCHANGED <<env, call>>

\* req.on('end'): the whole body has arrived
OnEnd(i) ==
    /\ conns[i].pc = "reading"
    /\ conns[i].received = conns[i].nchunks
    /\ conns' = [conns EXCEPT ![i] = IF @.front = "rest" THEN toolsOnEnd(env, @)
                                                           ELSE mcpOnEnd(env, @)]
    /\ UNCHANGED <<env, call>>

\* the upstream call of connection i settles, in one of the given ways
UpstreamSettles(i, outcomes) ==
    /\ conns[i].pc = "handling"
    /\ conns[i].h.pc = "awaiting"
    /\ \E up \in outcomes : conns' = [conns EXCEPT ![i].h = Settle(@, up)]
    /\ UNCHANGED <<env, call>>

\* a timer that answers 504 while the handler still awaits its upstream
Respond_OnTimeout(i) ==
    /\ conns[i].pc = "handling"
    /\ conns' = [conns EXCEPT ![i] =
            IF @.h.pc = "returned" THEN AfterHandler(@)
            ELSE Responded(@, HttpResponse(504, Obj([error |-> Str("Upstream timeout")])))]
    /\ UNCHANGED <<env, call>>

\* the listener resumes after `await handler(...)` and writes the response
Respond(i) ==
    /\ conns[i].pc = "handling"
    /\ conns[i].h.pc = "returned"
    /\ conns' = [conns EXCEPT ![i] = AfterHandler(@)]
    /\ UNCHANGED <<env, call>>

\* the exchange is over; the connection serves the next request
Close(i) ==
    /\ conns[i].pc = "responded"
    /\ conns' = [conns EXCEPT ![i] = Closed]
    /\ UNCHANGED <<env, call>>


-----------------------------------------------------------------------------
(* Handler-level specification *)

Invoke ==
    /\ call.pc = "idle"
    /\ \E name \in DOMAIN toolHandlers : \E params \in ParamsFor(name) :
            call' = Start(name, env, params)
    /\ UNCHANGED <<env, conns>>

FetchSettles ==
    /\ call.pc = "awaiting"
    /\ \E up \in OutcomesFor(call.name) : call' = Settle(call, up)
    /\ UNCHANGED <<env, conns>>

Return ==
    /\ call.pc = "returned"
    /\ call' = Idle
    /\ UNCHANGED <<env, conns>>

InitHandlers ==
    /\ env \in Envs
    /\ call = Idle
    /\ conns = [i \in Slots |-> Closed]

NextHandlers ==
    \/ Invoke
    \/ FetchSettles
    \/ Return

SpecHandlers == InitHandlers /\ [][NextHandlers]_vars

-----------------------------------------------------------------------------
(* Server specification: one connection, requests one after another *)

ServerEnvs ==
    { [DATAGOVIN_API_KEY |-> Str("key-1"), DATAGOVIN_RESOURCE_ID |-> Undef, EXA_API_KEY |-> Str("key-2")],
      [DATAGOVIN_API_KEY |-> Undef, DATAGOVIN_RESOURCE_ID |-> Undef, EXA_API_KEY |-> Str("key-2")],
      [DATAGOVIN_API_KEY |-> Str("key-1"), DATAGOVIN_RESOURCE_ID |-> Undef, EXA_API_KEY |-> Str("")] }

Methods == {"GET", "POST", "OPTIONS"}

Urls ==
    { <<"/mcp">>, <<"/health">>, <<"/">>, <<"/favicon.ico">>,
      <<"/tools/", "crop-price">>, <<"/tools/", "search">>, <<"/tools/", "weather">>,
      <<"/tools/", "search", "?limit=1">>, <<"/tools/", "search", "/tools/", "x">>,
      <<"/tools/", "search", "/">>, <<"/tools/", "Search">> }

ServerArgs ==
    { Null, Num(7), Obj(<<>>),
      Obj([state |-> Str("Punjab"), limit |-> Num(5)]),
      Obj([query |-> Str("wheat prices")]) }

Ids == {Undef, Num(0), Num(7)}

Envelope(id, method, params) ==
    Obj([jsonrpc |-> Str("2.0"), id |-> id, method |-> method, params |-> params])

Envelopes ==
    { Envelope(id, m, Undef)
        : id \in Ids,
          m \in {Undef, Str("initialize"), Str("tools/list"), Str("tools/call"), Str("resources/list")} }
    \cup { Envelope(id, Str("tools/call"), Obj([name |-> n, arguments |-> a]))
        : id \in Ids,
          n \in {Undef, Str("crop-price"), Str("search"), Str("weather")},
          a \in ServerArgs \cup {Undef} }

Wires ==
    { EmptyText, Garbage("{oops") }
    \cup { Stringify(v) : v \in ServerArgs \cup Envelopes }

\* a body with no bytes arrives in no piece, any other in 1..MaxChunks pieces
ChunkingsOf(wire) == IF wire = EmptyText THEN {0} ELSE 1..MaxChunks

ServerOutcomesFor(name) ==
    { Rejected,
      Response(500, Garbage("<html>502</html>")),
      Response(200, Garbage("<html>502</html>")),
      Response(200, Stringify(Null)) }
    \cup (IF name = "crop-price"
          THEN { Response(200, Stringify(Obj([records |-> Arr(<<PriceRecord("Wheat", "2100")>>),
                                              total |-> Num(7)]))) }
          ELSE { Response(200, Stringify(Obj([results |-> Arr(<<
                    Obj([title |-> Str("T1"), url |-> Str("https://x.example"),
                         text |-> TextOfLen(TruncLen + 1)]),
                    Obj([title |-> Str("no text"), url |-> Str("https://y.example")]) >>)]))) })

Init ==
    /\ env \in ServerEnvs
    /\ call = Idle
    /\ conns = [i \in Slots |-> Closed]

\* any client request; a request that is no POST carries no JSON
ClientSends ==
    /\ conns[1].pc = "closed"
    /\ \E method \in Methods, url \in Urls, wire \in Wires :
            \E nchunks \in ChunkingsOf(wire) :
                /\ method # "POST" => wire.fmt \in {"empty", "garbage"}
                /\ RequestArrives(1, method, url, wire, nchunks)

Next ==
    \/ ClientSends
    \/ OnData(1)
    \/ OnEnd(1)
    \/ UpstreamSettles(1, ServerOutcomesFor(conns[1].h.name))
    \/ Respond(1)
    \/ Close(1)

Spec == Init /\ [][Next]_vars

-----------------------------------------------------------------------------
(* Pair specification: one logical call sent through both front-ends, on   *)
(* two connections served concurrently                                     *)

\* the RPC envelope that carries the call connection 1 received over REST
TwinOf(x) ==
    Envelope(Num(7), Str("tools/call"),
             Obj([name |-> toolName(x.url), arguments |-> Parse(x.wire)]))

RestCallArrives ==
    /\ conns[1].pc = "closed"
    /\ \E n \in {"crop-price", "search", "weather"}, a \in ServerArgs :
        \E nchunks \in ChunkingsOf(Stringify(a)) :
            RequestArrives(1, "POST", <<"/tools/", n>>, Stringify(a), nchunks)

TwinArrives ==
    /\ conns[1].pc # "closed"
    /\ conns[2].pc = "closed"
    /\ RequestArrives(2, "POST", <<"/mcp">>, Stringify(TwinOf(conns[1])), 1)

NextPair ==
    \/ RestCallArrives
    \/ TwinArrives
    \/ \E i \in Slots : OnData(i)
    \/ \E i \in Slots : OnEnd(i)
    \/ \E i \in Slots : UpstreamSettles(i, ServerOutcomesFor(conns[i].h.name))
    \/ \E i \in Slots : Respond(i)

SpecPair == Init /\ [][NextPair]_vars

-----------------------------------------------------------------------------
(* Concurrent specification: the listener serves both connections at once, *)
(* body pieces and upstream completions interleaved in any order           *)

Call(url, value) == [method |-> "POST", url |-> url, wire |-> Stringify(value)]

ConcurrentCalls ==
    { Call(<<"/tools/", "crop-price">>, Obj([state |-> Str("Punjab"), limit |-> Num(5)])),
      Call(<<"/tools/", "search">>, Obj([query |-> Str("wheat prices")])),
      Call(<<"/tools/", "weather">>, Obj(<<>>)),
      Call(<<"/mcp">>, Envelope(Num(7), Str("tools/call"),
                                Obj([name |-> Str("search"),
                                     arguments |-> Obj([query |-> Str("wheat prices")])]))),
      Call(<<"/mcp">>, Envelope(Num(0), Str("tools/list"), Undef)),
      [method |-> "POST", url |-> <<"/tools/", "search">>, wire |-> Garbage("{oops")] }

CallArrives(i) ==
    /\ conns[i].pc = "closed"
    /\ \E c \in ConcurrentCalls : \E nchunks \in ChunkingsOf(c.wire) :
            RequestArrives(i, c.method, c.url, c.wire, nchunks)

NextConcurrent ==
    \/ \E i \in Slots : CallArrives(i)
    \/ \E i \in Slots : OnData(i)
    \/ \E i \in Slots : OnEnd(i)
    \/ \E i \in Slots : UpstreamSettles(i, ServerOutcomesFor(conns[i].h.name))
    \/ \E i \in Slots : Respond(i)
    \/ \E i \in Slots : Close(i)

SpecConcurrent == Init /\ [][NextConcurrent]_vars

-----------------------------------------------------------------------------
(* Fair specification: the event loop runs every listener whose event has  *)
(* been emitted and every continuation whose awaited promise has settled;  *)
(* nothing obliges a client to send its body or an upstream to answer      *)

\* the process started with the price key set and the search key empty, so
\* that both a handler that awaits an upstream call and one that returns
\* without issuing any are served
InitLive ==
    /\ env = [DATAGOVIN_API_KEY |-> Str("key-1"), DATAGOVIN_RESOURCE_ID |-> Undef,
              EXA_API_KEY |-> Str("")]
    /\ call = Idle
    /\ conns = [i \in Slots |-> Closed]

Fairness == \A i \in Slots : WF_vars(OnEnd(i)) /\ WF_vars(Respond(i))

SpecLive == InitLive /\ [][NextConcurrent]_vars /\ Fairness

-----------------------------------------------------------------------------
(* Shapes of a Tool Result *)

IsFailure(r) == r.t = "obj" /\ DOMAIN r.v = {"error"}
IsSuccess(r) == r.t = "obj" /\ DOMAIN r.v = {"success", "data"} /\ r.v.success = Bool(TRUE)

KeyOf(e, name) == IF name = "crop-price" THEN e.DATAGOVIN_API_KEY ELSE e.EXA_API_KEY
\* a key is configured when the variable is set to a non-empty value
NotConfigured(e, name) == KeyOf(e, name) \in {Undef, Str("")}

ConfigurationMessage(name) ==
    IF name = "crop-price"
    THEN "Configuration error: DATAGOVIN_API_KEY not set in environment."
    ELSE "Configuration error: EXA_API_KEY not set in environment."

\* C1: when the invoked tool's API key is not configured, the handler returns
\* (without suspending) a Failure whose message is that tool's configuration
\* error, whatever the arguments, and it has issued no upstream call.
C1_MissingKeyFailsWithoutCall ==
    (call.pc # "idle" /\ NotConfigured(env, call.name)) =>
        /\ call.pc = "returned"
        /\ IsFailure(call.result)
        /\ call.result.v.error.head = ConfigurationMessage(call.name)
        /\ Len(call.fetches) = 0

C1_Witness ==
    /\ call.pc = "returned"
    /\ call.name = "search"
    /\ env.EXA_API_KEY = Str("")
    /\ call.params \in SearchObjects
    /\ Len(call.fetches) = 0

-----------------------------------------------------------------------------
(* Claims about the price handler's outbound query *)

\* the values the query carries under a key, in order
EntriesOf(query, key) == SelectSeq(query, LAMBDA e : e.k = key)

PriceCallIssued == call.name = "crop-price" /\ Len(call.fetches) = 1

\* an input is provided when the arguments carry the property at all
Provided(params, field) == Get(params, field) # Undef

FilterKeys == [state |-> "filters[State]", district |-> "filters[District]",
               commodity |-> "filters[Commodity]"]

\* C5: the outbound price query contains filters[State] (filters[District],
\* filters[Commodity]) if and only if the input state (district, commodity)
\* was provided; a provided empty string counts as provided.
C5_FilterIffProvided ==
    PriceCallIssued =>
        \A f \in DOMAIN FilterKeys :
            (Len(EntriesOf(call.fetches[1].query, FilterKeys[f])) > 0)
                <=> Provided(call.params, f)

\* the caller set a paging value when the property is present and not null
CallerSet(params, field) == ~Nullish(Get(params, field))

Expected(params, field, default) ==
    IF CallerSet(params, field) THEN Get(params, field) ELSE Num(default)

\* C6: every outbound price query contains limit and offset, each exactly once:
\* 50 and 0 when the caller did not set them (property absent or null), the
\* caller's value otherwise, a supplied 0 included; a Success echoes the same
\* values as data.limit and data.offset.
C6_LimitOffsetDefaults ==
    PriceCallIssued =>
        LET q == call.fetches[1].query
            lim == Expected(call.params, "limit", 50)
            off == Expected(call.params, "offset", 0)
        IN  /\ EntriesOf(q, "limit") = <<[k |-> "limit", v |-> JSString(lim)]>>
            /\ EntriesOf(q, "offset") = <<[k |-> "offset", v |-> JSString(off)]>>
            /\ (call.pc = "returned" /\ IsSuccess(call.result)) =>
                    /\ call.result.v.data.v.limit = lim
                    /\ call.result.v.data.v.offset = off

C6_Witness ==
    /\ PriceCallIssued
    /\ call.pc = "returned"
    /\ IsSuccess(call.result)
    /\ Get(call.params, "limit") = Num(0)
    /\ Get(call.params, "offset") = Undef
    /\ call.result.v.data.v.limit = Num(0)
    /\ call.result.v.data.v.offset = Num(0)

-----------------------------------------------------------------------------
(* Claims about the search handler's result mapping *)

\* the upstream answered a search with a success status and a body whose
\* results are a list of entries, each with a string text or none
SearchMapped ==
    /\ call.name = "search"
    /\ call.pc = "returned"
    /\ Len(call.fetches) = 1
    /\ ~call.upstream.rejected
    /\ call.upstream.status = 200
    /\ Parseable(call.upstream.text)
    /\ Get(Parse(call.upstream.text), "results").t = "arr"
    /\ \A e \in {Get(Parse(call.upstream.text), "results").v[i]
                    : i \in 1..Len(Get(Parse(call.upstream.text), "results").v)} :
            e.t = "obj" /\ Get(e, "text").t \in {"undef", "text"}

\* C7: a text of at most 500 characters is returned unmodified (500 exactly
\* included); a longer one is cut to its first 500 characters followed by
\* '...'; the mapped results keep the upstream order and total_results is
\* their count.
C7_TruncationExact ==
    SearchMapped =>
        LET ups == Get(Parse(call.upstream.text), "results").v
            out == Get(Get(call.result, "data"), "results")
        IN  /\ IsSuccess(call.result)
            /\ out.t = "arr"
            /\ Len(out.v) = Len(ups)
            /\ Get(Get(call.result, "data"), "total_results") = Num(Len(ups))
            /\ \A i \in 1..Len(ups) :
                /\ Get(out.v[i], "title") = Get(ups[i], "title")
                /\ Get(out.v[i], "url") = Get(ups[i], "url")
                /\ Get(ups[i], "text").t = "text" =>
                    LET t == Get(ups[i], "text").v
                        m == Get(out.v[i], "text")
                    IN  /\ m.t = "text"
                        /\ Len(t) <= 500 => m.v = t
                        /\ Len(t) > 500 =>
                            /\ Len(m.v) = 503
                            /\ \A j \in 1..500 : m.v[j] = t[j]
                            /\ \A j \in 501..503 : m.v[j] = "."

C7_Witness ==
    /\ SearchMapped
    /\ LET ups == Get(Parse(call.upstream.text), "results").v
           out == Get(Get(call.result, "data"), "results").v
       IN  /\ Len(ups) = 2
           /\ Get(ups[1], "text").t = "text"
           /\ Get(ups[2], "text").t = "text"
           /\ Len(Get(ups[1], "text").v) = 501
           /\ Len(Get(ups[2], "text").v) = 500
           /\ Len(Get(out[1], "text").v) = 503
           /\ Len(Get(out[2], "text").v) = 500

-----------------------------------------------------------------------------
(* Claims about the front-ends (connection 1 of Spec) *)

RegisteredNames == {"crop-price", "search"}

\* what the client sent
RestCall(x) == x.front = "rest" /\ x.pc = "responded"
RpcCall(x) == x.front = "mcp" /\ x.pc = "responded"
\* a POST /tools/{name} whose path names exactly n
Names(x, n) == x.url = <<"/tools/", n>>
\* the body is a JSON text; `sent` is what arrived, an absent body included
Sent(x) == IF x.nchunks = 0 THEN EmptyText ELSE x.wire
IsJson(text) == text.fmt \in {"compact", "pretty"}
Decoded(x) == x.response.body.v

NoHandlerInvoked(x) == x.h.pc = "idle" /\ Len(x.h.fetches) = 0

\* C2: one logical call on a registered tool, sent over REST on connection 1
\* and over RPC on connection 2 and met by the same upstream outcome, yields
\* the same Tool Result: both Success, the RPC text block decoding to the REST
\* data, or both Failure with the same message.
C2_RestRpcEquivalent ==
    LET rest == conns[1]
        rpc == conns[2]
    IN  (/\ RestCall(rest) /\ RpcCall(rpc)
         /\ \E n \in RegisteredNames : Names(rest, n)
         /\ rest.h.upstream = rpc.h.upstream) =>
            LET a == Decoded(rest)
                b == Decoded(rpc)
            IN  \/ /\ DOMAIN a.v = {"success", "data"}
                   /\ "result" \in DOMAIN b.v /\ "error" \notin DOMAIN b.v
                   /\ Len(b.v.result.v.content.v) = 1
                   /\ IsJson(b.v.result.v.content.v[1].v.text)
                   /\ b.v.result.v.content.v[1].v.text.v = a.v.data
                \/ /\ DOMAIN a.v = {"error"}
                   /\ "error" \in DOMAIN b.v /\ "result" \notin DOMAIN b.v
                   /\ b.v.error.v.message = a.v.error

C2_Witness ==
    /\ RestCall(conns[1]) /\ RpcCall(conns[2])
    /\ Names(conns[1], "search")
    /\ conns[1].h.upstream = conns[2].h.upstream
    /\ DOMAIN Decoded(conns[1]).v = {"success", "data"}
    /\ Len(Decoded(conns[1]).v.data.v.results.v) = 2

AvailableTools == Arr(<<Str("crop-price"), Str("search")>>)

\* C3: a tool name that is not registered yields, over REST with a parseable
\* body, HTTP 404 whose available_tools lists exactly crop-price and search;
\* over RPC tools/call it yields error code -32601 whose error.data carries
\* the same list; no handler is invoked and no upstream call is made.
C3_UnknownTool ==
    LET x == conns[1] IN
    /\ (/\ RestCall(x)
        /\ Len(x.url) = 2 /\ x.url[1] = "/tools/" /\ x.url[2] \notin RegisteredNames
        /\ (Sent(x) = EmptyText \/ IsJson(Sent(x)))) =>
            /\ x.response.status = 404
            /\ Get(Decoded(x), "available_tools") = AvailableTools
            /\ NoHandlerInvoked(x)
    /\ (/\ RpcCall(x)
        /\ IsJson(Sent(x))
        /\ Get(Sent(x).v, "method") = Str("tools/call")
        /\ Get(Get(Sent(x).v, "params"), "name").t = "str"
        /\ Get(Get(Sent(x).v, "params"), "name").v \notin RegisteredNames) =>
            /\ Get(Get(Decoded(x), "error"), "code") = Num(-32601)
            /\ Get(Get(Get(Decoded(x), "error"), "data"), "availableTools") = AvailableTools
            /\ "result" \notin DOMAIN Decoded(x).v
            /\ NoHandlerInvoked(x)

C3_Witness ==
    LET x == conns[1] IN
    /\ RpcCall(x)
    /\ IsJson(Sent(x))
    /\ Get(Sent(x).v, "method") = Str("tools/call")
    /\ Get(Get(Sent(x).v, "params"), "name") = Str("weather")
    /\ Get(Get(Sent(x).v, "params"), "arguments") = Obj([query |-> Str("wheat prices")])
    /\ Get(Get(Decoded(x), "error"), "code") = Num(-32601)

\* C4: a body that is present and is not parseable JSON yields, on
\* POST /tools/{name}, HTTP 400 with an error string and, on POST /mcp (where
\* an absent body is unparseable too), HTTP 400 with RPC error code -32700
\* and id 0; in both cases no handler is invoked.
C4_MalformedBody ==
    LET x == conns[1] IN
    /\ (RestCall(x) /\ Sent(x).fmt = "garbage") =>
            /\ x.response.status = 400
            /\ DOMAIN Decoded(x).v = {"error"}
            /\ Decoded(x).v.error.t \in {"str", "msg"}
            /\ NoHandlerInvoked(x)
    /\ (RpcCall(x) /\ Sent(x).fmt \in {"garbage", "empty"}) =>
            /\ x.response.status = 400
            /\ Get(Get(Decoded(x), "error"), "code") = Num(-32700)
            /\ Get(Decoded(x), "id") = Num(0)
            /\ NoHandlerInvoked(x)

C4_Witness ==
    LET x == conns[1] IN
    /\ RestCall(x)
    /\ Names(x, "crop-price")
    /\ Sent(x).fmt = "garbage"
    /\ x.received = 2
    /\ x.response.status = 400

\* C8: a POST /tools/{name} with a registered name and a parseable (or absent)
\* body is answered 200 whatever the handler's outcome, and the body is the
\* Tool Result itself: {error: message} or {success: true, data}.
C8_HandledCallIs200 ==
    LET x == conns[1] IN
    (/\ RestCall(x)
     /\ \E n \in RegisteredNames : Names(x, n)
     /\ (Sent(x) = EmptyText \/ IsJson(Sent(x)))) =>
        /\ x.response.status = 200
        /\ x.h.pc = "returned"
        /\ Decoded(x) = Clean(x.h.result)
        /\ \/ /\ DOMAIN Decoded(x).v = {"error"}
              /\ Decoded(x).v.error.t = "msg"
           \/ /\ DOMAIN Decoded(x).v = {"success", "data"}
              /\ Decoded(x).v.success = Bool(TRUE)
              /\ Decoded(x).v.data.t = "obj"

\* an internal exception (the fetch rejects) still answers 200
C8_Witness ==
    LET x == conns[1] IN
    /\ RestCall(x)
    /\ Names(x, "crop-price")
    /\ x.h.pc = "returned"
    /\ x.h.upstream = Rejected
    /\ x.response.status = 200
    /\ DOMAIN Decoded(x).v = {"error"}

\* C9: on RPC tools/call of a registered tool, a handler Failure yields an RPC
\* error with code -32603 and the failure message, a handler Success yields
\* result.content of exactly one text block holding the pretty-printed data;
\* every RPC response carries exactly one of result and error.
C9_RpcWrapsToolResult ==
    LET x == conns[1] IN
    RpcCall(x) =>
        /\ ("result" \in DOMAIN Decoded(x).v) # ("error" \in DOMAIN Decoded(x).v)
        /\ (x.h.pc = "returned" /\ IsFailure(x.h.result)) =>
                /\ Get(Get(Decoded(x), "error"), "code") = Num(-32603)
                /\ Get(Get(Decoded(x), "error"), "message") = x.h.result.v.error
        /\ (x.h.pc = "returned" /\ IsSuccess(x.h.result)) =>
                LET content == Get(Get(Decoded(x), "result"), "content") IN
                /\ content.t = "arr" /\ Len(content.v) = 1
                /\ Get(content.v[1], "type") = Str("text")
                /\ Get(content.v[1], "text").fmt = "pretty"
                /\ Get(content.v[1], "text").v = Clean(x.h.result.v.data)

C9_Witness ==
    LET x == conns[1] IN
    /\ RpcCall(x)
    /\ x.h.pc = "returned"
    /\ IsSuccess(x.h.result)
    /\ x.h.name = "crop-price"
    /\ "result" \in DOMAIN Decoded(x).v

\* C10: every response to a parseable POST /mcp body carries the id of the
\* request it answers (none when the request has none); the sentinel id 0
\* with code -32700 answers only a body that could not be parsed.
C10_IdEchoed ==
    LET x == conns[1] IN
    (RpcCall(x) /\ IsJson(Sent(x))) =>
        /\ Get(Decoded(x), "id") = Get(Sent(x).v, "id")
        /\ Get(Get(Decoded(x), "error"), "code") # Num(-32700)

-----------------------------------------------------------------------------
(* Claims about the registry and the descriptors *)

\* the parameters the contract of each tool documents
DocumentedFields ==
    [n \in RegisteredNames |->
        IF n = "crop-price"
        THEN {"state", "district", "commodity", "limit", "offset"}
        ELSE {"query", "num_results", "include_domains", "exclude_domains",
              "start_crawl_date", "end_crawl_date"}]

\* connection 1 has answered an RPC tools/list
ListsTools(x) ==
    /\ RpcCall(x)
    /\ IsJson(Sent(x))
    /\ Get(Sent(x).v, "method") = Str("tools/list")

\* C11: after any sequence of requests the registry's keys are exactly
\* crop-price and search, and tools/list returns exactly 2 descriptors whose
\* names are those keys, each with a non-empty description and a parameter
\* schema holding at least the documented fields of its tool.
C11_RegistryAndDescriptors ==
    /\ DOMAIN toolHandlers = {"crop-price", "search"}
    /\ LET x == conns[1] IN
       ListsTools(x) =>
            LET tools == Get(Get(Decoded(x), "result"), "tools") IN
            /\ tools.t = "arr"
            /\ Len(tools.v) = 2
            /\ {Get(tools.v[i], "name") : i \in 1..2} = {Str(n) : n \in DOMAIN toolHandlers}
            /\ \A i \in 1..2 :
                /\ Get(tools.v[i], "description").t = "str"
                /\ Get(tools.v[i], "description").v # ""
                /\ DocumentedFields[Get(tools.v[i], "name").v]
                        \subseteq DOMAIN Get(Get(tools.v[i], "inputSchema"), "properties").v

-----------------------------------------------------------------------------
(* Claims about the upstream calls of one invocation (SpecHandlers) *)

Configured(e, name) == ~NotConfigured(e, name)

\* the upstream failed: network exception, non-success status, unparseable body
UpstreamFailed(up) == up.rejected \/ ~Ok(up) \/ ~Parseable(up.text)

\* C12: an invocation whose credential is configured issues exactly one
\* upstream call, no invocation issues more than one, and an invocation that
\* met an upstream failure has issued that one call and no other.
C12_ExactlyOneUpstreamCall ==
    /\ Len(call.fetches) <= 1
    /\ (call.pc # "idle" /\ Configured(env, call.name)) => Len(call.fetches) = 1
    /\ (call.pc = "returned" /\ call.upstream # Undef /\ UpstreamFailed(call.upstream)) =>
            Len(call.fetches) = 1

-----------------------------------------------------------------------------
(* Claims about faults (connection 1 of Spec) *)

IsToolResult(r) == IsFailure(r) \/ IsSuccess(r)

\* C13: whatever arguments reach a handler (null, none, a non-object) and
\* however the upstream behaves (network exception, non-success status,
\* unparseable body), the handler returns a Tool Result; every request is in
\* one of the listener's own stages and never in a fault; a request that has
\* been answered has had exactly one response written, a JSON document with
\* a status the front-ends define, and no other request has had any.
C13_NoEscapingFault ==
    LET x == conns[1] IN
    /\ x.pc \in {"closed", "reading", "handling", "responded"}
    /\ x.pc = "handling" => x.h.pc \in {"awaiting", "returned"}
    /\ x.h.pc = "returned" => IsToolResult(x.h.result)
    /\ x.writes = (IF x.pc = "responded" THEN 1 ELSE 0)
    /\ (x.pc = "responded" /\ x.method # "OPTIONS") =>
            /\ x.response.status \in {200, 400, 404}
            /\ IsJson(x.response.body)
            /\ Decoded(x).t = "obj"

\* an RPC tools/call without an arguments field: the handler is given
\* undefined, fails internally, and the request is answered once
C13_Witness ==
    LET x == conns[1] IN
    /\ RpcCall(x)
    /\ x.h.pc = "returned"
    /\ x.h.params = Undef
    /\ Configured(env, x.h.name)
    /\ IsFailure(x.h.result)
    /\ x.writes = 1
    /\ Get(Get(Decoded(x), "error"), "code") = Num(-32603)

-----------------------------------------------------------------------------
(* Claims about the values the handlers return (SpecHandlers) *)

\* the object carries the property (with a value other than undefined)
Has(r, k) == Get(r, k) # Undef

SuccessVariant(r) ==
    /\ Get(r, "success") = Bool(TRUE)
    /\ Has(r, "data")
    /\ ~Has(r, "error")

FailureVariant(r) ==
    /\ Get(r, "error").t \in {"str", "msg"}
    /\ Truthy(Get(r, "error"))
    /\ ~Has(r, "success")
    /\ ~Has(r, "data")

\* C14: every value cropPriceHandler or searchHandler returns is an object
\* that is exactly one of Success (success true, data present, no error) and
\* Failure (a non-empty error string, neither success nor data).
C14_ExactlyOneVariant ==
    call.pc = "returned" =>
        /\ call.result.t = "obj"
        /\ SuccessVariant(call.result) # FailureVariant(call.result)

\* the Failure the catch clause builds after a rejected fetch
C14_Witness ==
    /\ call.pc = "returned"
    /\ call.name = "search"
    /\ call.upstream = Rejected
    /\ FailureVariant(call.result)
    /\ ~SuccessVariant(call.result)

-----------------------------------------------------------------------------
(* Claims about the price handler's result (SpecHandlers) *)

\* the upstream answered a price call with a success status and a JSON object
PriceAnswered ==
    /\ call.name = "crop-price"
    /\ call.pc = "returned"
    /\ Len(call.fetches) = 1
    /\ ~call.upstream.rejected
    /\ Ok(call.upstream)
    /\ Parseable(call.upstream.text)
    /\ Parse(call.upstream.text).t = "obj"

\* C15: on a successful price upstream response the returned records are the
\* upstream records (the empty sequence if absent); the returned total is the
\* upstream total whenever the body supplies one, a supplied 0 included, and
\* the count of records only when the body has no total.
C15_RecordsAndTotal ==
    PriceAnswered =>
        LET json == Parse(call.upstream.text)
            data == Get(call.result, "data")
            records == IF Has(json, "records") THEN Get(json, "records") ELSE Arr(<<>>)
        IN  /\ IsSuccess(call.result)
            /\ Get(data, "records") = records
            /\ Get(data, "total") = (IF Has(json, "total") THEN Get(json, "total")
                                                          ELSE Num(Len(records.v)))

-----------------------------------------------------------------------------
(* Claims about upstream errors (SpecHandlers) *)

HttpErrorMessage(name) ==
    IF name = "crop-price" THEN "HTTP ${res.status} fetching data.gov.in: ${text}"
    ELSE "HTTP ${res.status} fetching EXA API: ${text}"

FormatErrorMessage(name) ==
    IF name = "crop-price" THEN "Invalid JSON response: ${text}"
    ELSE "Invalid JSON response from EXA: ${text}"

\* the fetch of the invocation has settled with a response
Answered == call.pc = "returned" /\ Len(call.fetches) = 1 /\ ~call.upstream.rejected

\* C16: for both handlers, a non-success upstream status yields the HTTP
\* Failure carrying that status and the body verbatim, whether or not the body
\* parses; a success status with a body that JSON.parse rejects yields the
\* format Failure carrying the raw body; a Success is returned only when the
\* status is success and the body parses.
C16_UpstreamErrorPrecedence ==
    /\ (Answered /\ ~Ok(call.upstream)) =>
            /\ IsFailure(call.result)
            /\ call.result.v.error = Msg(HttpErrorMessage(call.name),
                                         call.upstream.status, call.upstream.text)
    /\ (Answered /\ Ok(call.upstream) /\ ~Parseable(call.upstream.text)) =>
            /\ IsFailure(call.result)
            /\ call.result.v.error = Msg(FormatErrorMessage(call.name), 0, call.upstream.text)
    /\ (call.pc = "returned" /\ IsSuccess(call.result)) =>
            /\ Answered
            /\ Ok(call.upstream)
            /\ Parseable(call.upstream.text)

\* a non-success status with an unparseable body, reported as the HTTP error
C16_Witness ==
    /\ Answered
    /\ call.name = "crop-price"
    /\ call.upstream.status = 500
    /\ ~Parseable(call.upstream.text)
    /\ call.result.v.error.head = HttpErrorMessage("crop-price")
    /\ call.result.v.error.status = 500

-----------------------------------------------------------------------------
(* Claims about the search handler's outbound request (SpecHandlers) *)

SearchCallIssued == call.name = "search" /\ Len(call.fetches) = 1

OptionalSearchFields ==
    {"include_domains", "exclude_domains", "start_crawl_date", "end_crawl_date"}

\* C17: every outbound search request body contains query, num_results (5
\* when the caller did not supply it), use_autoprompt set to true and the
\* request for text content; each of include_domains, exclude_domains,
\* start_crawl_date and end_crawl_date is in the body only when it is present
\* in the input, and then with the caller's value.
C17_SearchRequestBody ==
    SearchCallIssued =>
        LET sent == Parse(call.fetches[1].body)
            input == call.params
        IN  /\ Has(sent, "query")
            /\ Get(sent, "query") = Get(input, "query")
            /\ Get(sent, "num_results") =
                    (IF Has(input, "num_results") THEN Get(input, "num_results")
                                                  ELSE Num(5))
            /\ Get(sent, "use_autoprompt") = Bool(TRUE)
            /\ Get(sent, "contents") = Obj([text |-> Bool(TRUE)])
            /\ \A f \in OptionalSearchFields :
                    Has(sent, f) => (Has(input, f) /\ Get(sent, f) = Get(input, f))

-----------------------------------------------------------------------------
(* Claims about the REST lookup (connection 1 of Spec) *)

\* the {name} of a path /tools/{name}: all that follows the leading '/tools/'
PathName(url) == Concat(Tail(url))

\* the path holds '/tools/' once only, at its start
SingleToolsPrefix(url) == \A i \in 2..Len(url) : url[i] # "/tools/"

\* an answered POST /tools/{name} whose name is not registered
UnknownToolCall(x) ==
    /\ RestCall(x)
    /\ SingleToolsPrefix(x.url)
    /\ PathName(x.url) \notin RegisteredNames

\* C18, as stated: every POST /tools/{name} with an unregistered name is
\* answered 404 with the list of available tools, whatever the body is, a
\* body that is not parseable JSON included.
C18_UnknownToolAlways404 ==
    LET x == conns[1] IN
    UnknownToolCall(x) =>
        /\ x.response.status = 404
        /\ Get(Decoded(x), "available_tools") = AvailableTools

\* C18, amended: the body is parsed before the name is looked up, so a POST
\* /tools/{name} with an unregistered name (in a path that holds '/tools/'
\* only at its start) is answered 400 with an error
\* string and no list when its body is not parseable JSON, and 404 with the
\* list of available tools when its body is parseable or empty; in neither
\* case is a handler invoked.
C18_UnknownToolParseFirst ==
    LET x == conns[1] IN
    UnknownToolCall(x) =>
        /\ NoHandlerInvoked(x)
        /\ Sent(x).fmt = "garbage" =>
                /\ x.response.status = 400
                /\ DOMAIN Decoded(x).v = {"error"}
        /\ Sent(x).fmt # "garbage" =>
                /\ x.response.status = 404
                /\ DOMAIN Decoded(x).v = {"error", "available_tools"}
                /\ Get(Decoded(x), "available_tools") = AvailableTools

C18_Witness ==
    LET x == conns[1] IN
    /\ UnknownToolCall(x)
    /\ PathName(x.url) = "weather"
    /\ Sent(x).fmt = "garbage"
    /\ x.response.status = 400

\* C19: the REST front-end invokes a handler only for a POST whose path is
\* '/tools/' followed by exactly a registered name; any other remainder (more
\* segments, a second '/tools/', a query string, a trailing slash, another
\* case) is an unknown tool: it is answered 404 when the body parses and no
\* handler is invoked.
C19_ExactNameMatch ==
    LET x == conns[1] IN
    /\ (x.front = "rest" /\ x.h.pc # "idle") =>
            /\ x.method = "POST"
            /\ StartsWithTools(x.url)
            /\ PathName(x.url) \in RegisteredNames
            /\ x.h.name = PathName(x.url)
    /\ (/\ RestCall(x)
        /\ PathName(x.url) \notin RegisteredNames
        /\ Sent(x).fmt # "garbage") =>
            /\ x.response.status = 404
            /\ NoHandlerInvoked(x)

-----------------------------------------------------------------------------
(* Claims about concurrent requests (SpecConcurrent) *)

\* the response a request gets when it is served alone: a function of the
\* environment, its own method, path and body, and its own upstream outcome
\* (no response yet while its upstream call has not settled)
AloneAnswer(e, x) ==
    LET arrived == httpServer(e, x.method, x.url, x.wire, x.nchunks)
        read == [arrived EXCEPT !.received = x.nchunks]
        ended == IF arrived.pc # "reading" THEN arrived
                 ELSE IF read.front = "rest" THEN toolsOnEnd(e, read)
                 ELSE mcpOnEnd(e, read)
        settled == IF ended.pc = "handling" /\ ended.h.pc = "awaiting"
                      /\ x.h.upstream # Undef
                   THEN [ended EXCEPT !.h = Settle(@, x.h.upstream)]
                   ELSE ended
    IN  IF settled.pc = "handling" /\ settled.h.pc = "returned"
        THEN AfterHandler(settled).response
        ELSE settled.response

SameRequest(x, y) == x.method = y.method /\ x.url = y.url /\ Sent(x) = Sent(y)

\* the upstream calls a request has issued so far
CallsOf(x) == Len(x.h.fetches)

\* C20: under every interleaving of the body pieces and upstream completions
\* of two requests in flight, the response of each is the one it gets when
\* served alone, given its own path, body and upstream outcome; and two
\* identical requests in flight have each issued their own upstream call.
C20_ConcurrentIsolation ==
    /\ \A i \in Slots :
            conns[i].pc = "responded" => conns[i].response = AloneAnswer(env, conns[i])
    /\ \A i \in Slots :
            (conns[i].pc = "handling" /\ conns[i].h.pc = "awaiting") => CallsOf(conns[i]) = 1
    /\ (/\ SameRequest(conns[1], conns[2])
        /\ \A i \in Slots : conns[i].pc \in {"handling", "responded"}) =>
            CallsOf(conns[1]) = CallsOf(conns[2])

\* two identical requests answered differently, each by its own upstream outcome
C20_Witness ==
    /\ \A i \in Slots : conns[i].pc = "responded" /\ conns[i].front = "rest"
    /\ SameRequest(conns[1], conns[2])
    /\ conns[1].h.name = "search"
    /\ CallsOf(conns[1]) = 1
    /\ CallsOf(conns[2]) = 1
    /\ conns[1].h.upstream = Rejected
    /\ conns[2].h.upstream.status = 200
    /\ IsFailure(conns[1].h.result)
    /\ IsSuccess(conns[2].h.result)
    /\ conns[1].response # conns[2].response

-----------------------------------------------------------------------------
(* Claims about the RPC endpoint (connection 1 of Spec) *)

RpcMethods == {Str("initialize"), Str("tools/list"), Str("tools/call")}

ParseErrorAnswer(x) ==
    /\ x.response.status = 400
    /\ Get(Get(Decoded(x), "error"), "code") = Num(-32700)

\* C21: POST /mcp answers HTTP 400 with RPC error -32700 if and only if the
\* body is not parseable JSON; every parseable body is answered HTTP 200, and
\* one whose method is none of initialize, tools/list and tools/call (an
\* absent method included) gets RPC error -32601 with no handler invoked.
C21_ParseErrorIffUnparseable ==
    LET x == conns[1] IN
    RpcCall(x) =>
        /\ ParseErrorAnswer(x) <=> ~IsJson(Sent(x))
        /\ IsJson(Sent(x)) => x.response.status = 200
        /\ (IsJson(Sent(x)) /\ Get(Sent(x).v, "method") \notin RpcMethods) =>
                /\ Get(Get(Decoded(x), "error"), "code") = Num(-32601)
                /\ NoHandlerInvoked(x)

-----------------------------------------------------------------------------
(* Claims about entries without text (SpecHandlers) *)

\* C23: when an upstream search entry has no text field, the mapped entry's
\* text is the 9-character string 'undefined', neither absent nor empty, and
\* the handler still returns Success with every entry mapped.
C23_AbsentTextIsUndefinedString ==
    SearchMapped =>
        LET ups == Get(Parse(call.upstream.text), "results").v
            out == Get(Get(call.result, "data"), "results")
        IN  /\ IsSuccess(call.result)
            /\ Len(out.v) = Len(ups)
            /\ \A i \in 1..Len(ups) :
                    ~Has(ups[i], "text") =>
                        /\ Get(out.v[i], "text") =
                                Text(<<"u", "n", "d", "e", "f", "i", "n", "e", "d">>)
                        /\ Len(Get(out.v[i], "text").v) = 9

C23_Witness ==
    /\ SearchMapped
    /\ IsSuccess(call.result)
    /\ LET ups == Get(Parse(call.upstream.text), "results").v
           out == Get(Get(call.result, "data"), "results").v
       IN  /\ Len(ups) = 2
           /\ ~Has(ups[1], "text")
           /\ Has(ups[2], "text")
           /\ Len(Get(out[1], "text").v) = 9

-----------------------------------------------------------------------------
(* Claims about when a request is answered (SpecLive) *)

ToolRequest(x) == x.front \in {"rest", "mcp"}
BodyArrived(x) == x.pc = "reading" /\ x.received = x.nchunks
AwaitingUpstream(x) == x.pc = "handling" /\ x.h.pc = "awaiting"
HandlerReturned(x) == x.pc = "handling" /\ x.h.pc = "returned"
RequestAnswered(x) == x.pc = "responded"

\* a response has been written only with the whole body read and, if an
\* upstream call was issued, with that call settled
AnsweredOnlyWhenDone(x) ==
    /\ (ToolRequest(x) /\ x.writes > 0) =>
            /\ x.received = x.nchunks
            /\ CallsOf(x) > 0 => (x.h.pc = "returned" /\ x.h.upstream # Undef)
    /\ (ToolRequest(x) /\ (x.received < x.nchunks \/ BodyArrived(x) \/ AwaitingUpstream(x))) =>
            x.writes = 0

\* C22: a tool request is answered only after its full body has arrived and
\* its upstream call, if one was issued, has completed or failed, no timeout
\* or cancellation answering it earlier; and, the event loop being fair, a
\* request whose body has fully arrived is answered or comes to await its
\* upstream call, and a request whose handler has returned (its upstream call
\* completed or failed) is answered.
C22_AnsweredWhenDone ==
    /\ [](\A i \in Slots : AnsweredOnlyWhenDone(conns[i]))
    /\ \A i \in Slots :
            BodyArrived(conns[i]) ~> (RequestAnswered(conns[i]) \/ AwaitingUpstream(conns[i]))
    /\ \A i \in Slots : HandlerReturned(conns[i]) ~> RequestAnswered(conns[i])

\* one request answered after its upstream call failed, while the other,
\* its body read, still awaits its upstream call and has no response
C22_Witness ==
    /\ RequestAnswered(conns[1])
    /\ conns[1].received = 2
    /\ conns[1].h.upstream = Rejected
    /\ AwaitingUpstream(conns[2])
    /\ conns[2].writes = 0

====
